---- MODULE Spec2Model ----
(***************************************************************************)
(* Model of the deployment Manager / Pool of package deploy (apps.go lines *)
(* 160-442) and of DeploymentGoal / DeploymentState (deployment.go).       *)
(*                                                                         *)
(* Client goroutines ("threads") call NewPool, Spawn, Destroy, Status,     *)
(* Instances, Update, Pool.Close and Manager.Close concurrently.  Every    *)
(* blocking point of the code (a mutex acquisition, a remote call, a       *)
(* channel receive, a timeout) separates two steps of the model, and so do *)
(* the two unlocked reads of Status.  The remote API is an external        *)
(* collaborator: each remote call ends with any outcome, or never.         *)
(* The unlocked reads of m.closed are reads of a bool that yield the old   *)
(* or the new value, which the interleaving of atomic reads covers.        *)
(* SpecGoal is the DeploymentGoal type on its own, with its objects held   *)
(* by address.                                                             *)
(***************************************************************************)
EXTENDS Integers, FiniteSets, Sequences, TLC

\* ---------------------------------------------------------------- bounds
\* Number of goroutines abandoned by timed-out calls (running or blocked).
MaxStray == 1

\* Client goroutines calling into the package.
Procs == {"t1", "t2"}
\* The single client of the sequential specifications.
SeqProcs == {"t1"}
\* Pool objects, in order of construction.
PoolIds == {1, 2}
\* Values of p.key(): "org::name".
Keys == {"o::a", "o::b"}
\* Instance identifiers hex.EncodeToString can return.
Ids == {"a", "b"}
\* Instance specifications (*VM) a caller passes to Spawn.
VMs == {"vm1", "vm2"}
\* Addresses of DeploymentGoal objects.
Refs == {1, 2}

VARIABLES
  closed,      \* Manager.closed
  lock,        \* Manager.lock: its holder, or None
  pools,       \* Manager.pools: key -> Pool
  npools,      \* number of Pool objects constructed and registered so far
  handles,     \* Pools that NewPool returned to a caller
  key,         \* Pool.key()
  goal,        \* Pool.goal.children, or NilMap when Pool.goal is nil
  state,       \* Pool.state.children, or NilMap when Pool.state is nil
  statusLock,  \* Pool.statusLock: its holder, or None
  remote,      \* deployments that exist on the remote API, by key
  accepted,    \* per Pool: the goal document the remote API accepted last
  pc,          \* per thread: its position
  loc,         \* per thread: its local variables
  task,        \* per thread: the goroutine its Update or Close started
  stray,       \* per Pool: abandoned goroutines whose remote call is in flight
  leaked,      \* goroutines blocked forever on a send nobody receives
  mcRet,       \* result of the Manager.Close calls that returned so far
  seen,        \* per thread in Status: what Status would have returned at
               \* each instant since the call began
  objs,        \* DeploymentGoal objects by address: their children
  held,        \* the pointers g and n := g.Copy() of a user of DeploymentGoal
  last         \* the call that returned in the latest step, with its result

vars == <<closed, lock, pools, npools, handles, key, goal, state, statusLock,
          remote, accepted, pc, loc, task, stray, leaked, mcRet, seen, objs, held,
          last>>

None == "none"

\* ------------------------------------------------------------ deployment.go
\* A map with no entries: make(map[string]*VM).
EmptyMap == << >>
\* The children of a nil *DeploymentGoal / *DeploymentState: reading them
\* dereferences nil.  A map whose domain is not a set of identifiers.
NilMap == [n \in {"nil"} |-> "nil"]

\* The zero InstanceStatus, &InstanceStatus{}.
EmptyStatus == "zero"
\* Instance statuses UnmarshalJSON can decode; a "vm" object without known
\* fields decodes to the zero InstanceStatus.
Statuses == {EmptyStatus, "s1"}

\* The state documents GetDeployment decodes here: no instance, one
\* instance, and two instances of which one has the zero status.
Docs ==
  {EmptyMap,
   [i \in {"a"} |-> "s1"],
   [i \in Ids |-> IF i = "a" THEN EmptyStatus ELSE "s1"]}

\* What the calls of a specification draw from: the Pools NewPool may
\* construct, their keys, the identifiers rand.Read may give and callers may
\* name, the specifications passed to Spawn, and the state documents the
\* remote API may answer with.
\* One Pool, with every identifier, specification and document:
SeqScope ==
  [pools |-> {1}, keys |-> {"o::a"}, ids |-> Ids, vms |-> VMs, docs |-> Docs]
\* One Pool, with every identifier and two documents:
PoolScope ==
  [pools |-> {1}, keys |-> {"o::a"}, ids |-> Ids, vms |-> {"vm1"},
   docs |-> {EmptyMap, [i \in {"a"} |-> "s1"]}]
\* Two Pools, whose keys may be equal, with one identifier and one document:
MgrScope ==
  [pools |-> PoolIds, keys |-> Keys, ids |-> {"a"}, vms |-> {"vm1"},
   docs |-> {[i \in {"a"} |-> "s1"]}]

\* g.children[id] = vm
Attach(g, id, vm) == [k \in (DOMAIN g) \cup {id} |-> IF k = id THEN vm ELSE g[k]]

\* Detach removing nothing.
DetachNothing(g, id) == g

\* delete(g.children, id)
Detach(g, id) == [k \in (DOMAIN g) \ {id} |-> g[k]]

\* A new DeploymentGoal with every entry of g.
Copy(g) == [k \in DOMAIN g |-> g[k]]

\* ------------------------------------------------------------------ helpers
Loc0 == [p |-> 0, k |-> None, id |-> None, vm |-> None, g |-> EmptyMap,
         mgr |-> FALSE, list |-> {}]
Task0 == [st |-> None, err |-> FALSE, pl |-> EmptyMap]
Last0 == [op |-> None, p |-> 0, id |-> None, res |-> None, push |-> None,
          ref |-> None, val |-> None, list |-> {}]

\* The result record of a call that returned: the operation, the Pool and
\* identifier it was called with, its error ("ok" for nil), the outcome of
\* the push it made, the value it returned, and the identifiers it listed.
Result(op, p, id, res) ==
  [op |-> op, p |-> p, id |-> id, res |-> res, push |-> None, ref |-> None,
   val |-> None, list |-> {}]

\* Goroutines that outlived the call that started them.
StrayCount ==
  Cardinality(UNION {{<<p, "fetch", i>> : i \in 1..stray[p].fetch} : p \in PoolIds})
  + Cardinality(UNION {{<<p, "delete", i>> : i \in 1..stray[p].delete} : p \in PoolIds})
  + leaked

\* Thread t returns rec to its caller.
Return(t, rec) ==
  /\ pc' = [pc EXCEPT ![t] = "idle"]
  /\ loc' = [loc EXCEPT ![t] = Loc0]
  /\ last' = rec

\* Status never finding the identifier in the observed state.
StatusStoredNever(s, id) == FALSE

\* v, ok := p.state.children[id]
StatusStored(s, id) == id \in DOMAIN s

\* _, ok = p.goal.children[id]
StatusScheduled(g, id) == id \in DOMAIN g

\* What Status(id) returns when both of its reads see goal g and observed
\* state s: its error, the object it returns and that object's contents.
StatusAt(g, s, id) ==
  IF s = NilMap THEN <<"panic", None, None>>
  ELSE IF StatusStored(s, id) THEN <<"ok", "stored", s[id]>>
  ELSE IF g = NilMap THEN <<"panic", None, None>>
  ELSE IF StatusScheduled(g, id) THEN <<"ok", "fresh", EmptyStatus>>
  ELSE <<"ErrInstanceNotInPool", None, None>>

\* While a Status call of t is between its two reads, seen[t] gathers what
\* Status would return on the states of each instant since it was called.
See ==
  seen' = [t \in Procs |->
             IF pc'[t] = "st_goal"
             THEN (IF pc[t] = "st_goal" THEN seen[t] ELSE {})
                  \cup {StatusAt(goal'[loc'[t].p], state'[loc'[t].p], loc'[t].id)}
             ELSE {}]

InitManager ==
  /\ closed = FALSE
  /\ lock = None
  /\ pools = EmptyMap
  /\ npools = 0
  /\ handles = {}
  /\ key = [p \in PoolIds |-> None]
  /\ goal = [p \in PoolIds |-> EmptyMap]
  /\ state = [p \in PoolIds |-> EmptyMap]
  /\ statusLock = [p \in PoolIds |-> None]
  /\ remote = {}
  /\ accepted = [p \in PoolIds |-> EmptyMap]
  /\ pc = [t \in Procs |-> "idle"]
  /\ loc = [t \in Procs |-> Loc0]
  /\ task = [t \in Procs |-> Task0]
  /\ stray = [p \in PoolIds |-> [fetch |-> 0, delete |-> 0]]
  /\ leaked = 0
  /\ mcRet = None
  /\ seen = [t \in Procs |-> {}]
  /\ last = Last0

\* A new Manager; no DeploymentGoal is used apart from those of its Pools.
Init ==
  /\ InitManager
  /\ objs = [r \in Refs |-> EmptyMap]
  /\ held = [g |-> 1, n |-> 0]

\* ------------------------------------------------------------ Manager.NewPool
\* Pool objects under construction, not yet registered.
Constructing == Cardinality({t \in Procs : pc[t] = "np_lock"})

\* NewPool without the second check of m.closed.
NewPoolClosedUnchecked(c) == FALSE

\* The check of m.closed under m.lock.
NewPoolClosed(c) == c

\* if m.closed { return nil, ErrManagerClosed }; p := new(Pool) ...
NewPoolCheck(t, sc) ==
  /\ pc[t] = "idle"
  /\ \E k \in sc.keys :
       IF closed
       THEN /\ Return(t, Result("NewPool", 0, None, "ErrManagerClosed"))
       ELSE /\ npools + Constructing < Cardinality(sc.pools)
            /\ pc' = [pc EXCEPT ![t] = "np_lock"]
            /\ loc' = [loc EXCEPT ![t].k = k]
            /\ last' = Last0
  /\ UNCHANGED <<closed, lock, pools, npools, handles, key, goal, state,
                 statusLock, remote, accepted, task, stray, leaked, mcRet>>
  /\ UNCHANGED <<objs, held>>
  /\ See

\* m.lock.Lock(); if m.closed { return nil, errors.New("closed") };
\* p.mgr.pools[p.key()] = p; then CreateDeployment is called.
NewPoolRegister(t) ==
  /\ pc[t] = "np_lock"
  /\ lock = None
  /\ IF NewPoolClosed(closed)
     THEN /\ Return(t, Result("NewPool", 0, None, "closed"))
          /\ UNCHANGED <<lock, pools, npools, key, goal, state>>
     ELSE LET p == npools + 1 IN
          /\ lock' = t
          /\ npools' = p
          /\ key' = [key EXCEPT ![p] = loc[t].k]
          /\ goal' = [goal EXCEPT ![p] = EmptyMap]
          /\ state' = [state EXCEPT ![p] = EmptyMap]
          /\ pools' = Attach(pools, loc[t].k, p)
          /\ pc' = [pc EXCEPT ![t] = "np_create"]
          /\ loc' = [loc EXCEPT ![t].p = p]
          /\ last' = Last0
  /\ UNCHANGED <<closed, handles, statusLock, remote, accepted, task, stray,
                 leaked, mcRet>>
  /\ UNCHANGED <<objs, held>>
  /\ See

\* err := CreateDeployment(...); if err != nil { return nil, err }; return p, nil
NewPoolCreated(t) ==
  /\ pc[t] = "np_create"
  /\ lock' = None
  /\ \E ok \in BOOLEAN :
       IF ok
       THEN /\ remote' = remote \cup {loc[t].k}
            /\ handles' = handles \cup {loc[t].p}
            /\ Return(t, Result("NewPool", loc[t].p, None, "ok"))
       ELSE /\ UNCHANGED <<remote, handles>>
            /\ Return(t, Result("NewPool", 0, None, "remote_error"))
  /\ UNCHANGED <<closed, pools, npools, key, goal, state, statusLock,
                 accepted, task, stray, leaked, mcRet>>
  /\ UNCHANGED <<objs, held>>
  /\ See

\* A Pool operation that does not look at the closed flag of its Manager.
MgrClosedUnchecked(c) == FALSE

\* if p.mgr.closed { return ..., ErrManagerClosed }: the first statement of
\* Spawn, Destroy and Update, with c the value read from p.mgr.closed.
MgrClosed(c) == c

\* A statusLock that never blocks.
CanLockAlways(p) == TRUE

\* The guard of p.statusLock.Lock().
CanLock(p) == statusLock[p] = None

\* ---------------------------------------------------------------- Pool.Spawn
\* Spawn swapping the goal in whatever the push returned.
SpawnCommitAlways(old, g, ok) == g

\* if err != nil { return "", err }; p.goal = g
SpawnCommit(old, g, ok) == IF ok THEN g ELSE old

\* if p.mgr.closed { return "", ErrManagerClosed }
SpawnCheck(t, sc) ==
  /\ pc[t] = "idle"
  /\ \E p \in handles, vm \in sc.vms :
       IF MgrClosed(closed)
       THEN Return(t, Result("Spawn", p, None, "ErrManagerClosed"))
       ELSE /\ pc' = [pc EXCEPT ![t] = "sp_lock"]
            /\ loc' = [loc EXCEPT ![t].p = p, ![t].vm = vm]
            /\ last' = Last0
  /\ UNCHANGED <<closed, lock, pools, npools, handles, key, goal, state,
                 statusLock, remote, accepted, task, stray, leaked, mcRet>>
  /\ UNCHANGED <<objs, held>>
  /\ See

\* p.statusLock.Lock(); id := hex(rand); g := p.goal.Copy(); g.Attach(id, vm);
\* then g.Push is called.  Copy of a nil goal panics; the deferred Unlock runs.
SpawnLock(t, sc) ==
  /\ pc[t] = "sp_lock"
  /\ CanLock(loc[t].p)
  /\ IF goal[loc[t].p] = NilMap
     THEN /\ Return(t, Result("Spawn", loc[t].p, None, "panic"))
          /\ UNCHANGED statusLock
     ELSE \E id \in sc.ids :
          /\ statusLock' = [statusLock EXCEPT ![loc[t].p] = t]
          /\ pc' = [pc EXCEPT ![t] = "sp_push"]
          /\ loc' = [loc EXCEPT ![t].id = id,
                                ![t].g = Attach(Copy(goal[loc[t].p]), id, loc[t].vm)]
          /\ last' = Last0
  /\ UNCHANGED <<closed, lock, pools, npools, handles, key, goal, state,
                 remote, accepted, task, stray, leaked, mcRet>>
  /\ UNCHANGED <<objs, held>>
  /\ See

\* err := g.Push(...); if err != nil { return "", err }; p.goal = g; return id, nil
SpawnPushed(t) ==
  /\ pc[t] = "sp_push"
  /\ LET p == loc[t].p IN
     /\ statusLock' = [statusLock EXCEPT ![p] = None]
     /\ \E ok \in BOOLEAN :
          /\ goal' = [goal EXCEPT ![p] = SpawnCommit(goal[p], loc[t].g, ok)]
          /\ accepted' = [accepted EXCEPT ![p] = IF ok THEN loc[t].g ELSE @]
          /\ Return(t, [Result("Spawn", p, loc[t].id,
                               IF ok THEN "ok" ELSE "remote_error")
                        EXCEPT !.push = IF ok THEN "ok" ELSE "failed",
                               !.val = IF ok THEN loc[t].id ELSE None])
  /\ UNCHANGED <<closed, lock, pools, npools, handles, key, state, remote,
                 task, stray, leaked, mcRet>>
  /\ UNCHANGED <<objs, held>>
  /\ See

\* --------------------------------------------------------------- Pool.Destroy
\* p.goal.Push(...); return nil
DestroyResult(ok) == "ok"

\* if p.mgr.closed { return ErrManagerClosed }
DestroyCheck(t, sc) ==
  /\ pc[t] = "idle"
  /\ \E p \in handles, id \in sc.ids :
       IF MgrClosed(closed)
       THEN Return(t, Result("Destroy", p, id, "ErrManagerClosed"))
       ELSE /\ pc' = [pc EXCEPT ![t] = "de_lock"]
            /\ loc' = [loc EXCEPT ![t].p = p, ![t].id = id]
            /\ last' = Last0
  /\ UNCHANGED <<closed, lock, pools, npools, handles, key, goal, state,
                 statusLock, remote, accepted, task, stray, leaked, mcRet>>
  /\ UNCHANGED <<objs, held>>
  /\ See

\* p.statusLock.Lock(); p.goal.Detach(id); then p.goal.Push is called.
\* Detach on a nil goal panics; the deferred Unlock runs.
DestroyLock(t) ==
  /\ pc[t] = "de_lock"
  /\ CanLock(loc[t].p)
  /\ IF goal[loc[t].p] = NilMap
     THEN /\ Return(t, Result("Destroy", loc[t].p, loc[t].id, "panic"))
          /\ UNCHANGED <<statusLock, goal>>
     ELSE /\ statusLock' = [statusLock EXCEPT ![loc[t].p] = t]
          /\ goal' = [goal EXCEPT ![loc[t].p] = Detach(@, loc[t].id)]
          /\ pc' = [pc EXCEPT ![t] = "de_push"]
          /\ loc' = loc /\ last' = Last0
  /\ UNCHANGED <<closed, lock, pools, npools, handles, key, state, remote,
                 accepted, task, stray, leaked, mcRet>>
  /\ UNCHANGED <<objs, held>>
  /\ See

\* p.goal.Push(...) returns and its result is dropped; return nil
DestroyPushed(t) ==
  /\ pc[t] = "de_push"
  /\ LET p == loc[t].p IN
     /\ statusLock' = [statusLock EXCEPT ![p] = None]
     /\ \E ok \in BOOLEAN :
          /\ accepted' = [accepted EXCEPT ![p] = IF ok THEN goal[p] ELSE @]
          /\ Return(t, [Result("Destroy", p, loc[t].id, DestroyResult(ok))
                        EXCEPT !.push = IF ok THEN "ok" ELSE "failed"])
  /\ UNCHANGED <<closed, lock, pools, npools, handles, key, goal, state,
                 remote, task, stray, leaked, mcRet>>
  /\ UNCHANGED <<objs, held>>
  /\ See

\* ---------------------------------------------------------------- Pool.Status
\* A caller invokes Status(id) on a Pool it holds:
\* v, ok := p.state.children[id]; if ok { return v, nil }.  The result names
\* the object returned (ref) and its contents (val).  A nil state panics.
StatusReadState(t, sc) ==
  /\ pc[t] = "idle"
  /\ \E p \in handles, id \in sc.ids :
       IF state[p] = NilMap
       THEN Return(t, Result("Status", p, id, "panic"))
       ELSE IF StatusStored(state[p], id)
       THEN Return(t, [Result("Status", p, id, "ok")
                       EXCEPT !.ref = "stored", !.val = state[p][id]])
       ELSE /\ pc' = [pc EXCEPT ![t] = "st_goal"]
            /\ loc' = [loc EXCEPT ![t].p = p, ![t].id = id]
            /\ last' = Last0
  /\ UNCHANGED <<closed, lock, pools, npools, handles, key, goal, state,
                 statusLock, remote, accepted, task, stray, leaked, mcRet>>
  /\ UNCHANGED <<objs, held>>
  /\ See

\* _, ok = p.goal.children[id]; if !ok { return nil, ErrInstanceNotInPool };
\* return &InstanceStatus{}, nil.  A nil goal panics.
StatusReadGoal(t) ==
  /\ pc[t] = "st_goal"
  /\ LET p == loc[t].p
         id == loc[t].id
     IN IF goal[p] = NilMap
        THEN Return(t, Result("Status", p, id, "panic"))
        ELSE IF StatusScheduled(goal[p], id)
        THEN Return(t, [Result("Status", p, id, "ok")
                        EXCEPT !.ref = "fresh", !.val = EmptyStatus])
        ELSE Return(t, Result("Status", p, id, "ErrInstanceNotInPool"))
  /\ UNCHANGED <<closed, lock, pools, npools, handles, key, goal, state,
                 statusLock, remote, accepted, task, stray, leaked, mcRet>>
  /\ UNCHANGED <<objs, held>>
  /\ See

\* ------------------------------------------------------------- Pool.Instances
\* for k := range p.goal.children { list = append(list, k) }; sort.Strings(list):
\* the keys of the goal, whose sorted list the set of keys determines.  No
\* lock is taken.  A nil goal panics.
InstancesRead(t) ==
  /\ pc[t] = "idle"
  /\ \E p \in handles :
       IF goal[p] = NilMap
       THEN Return(t, Result("Instances", p, None, "panic"))
       ELSE Return(t, [Result("Instances", p, None, "ok")
                       EXCEPT !.list = DOMAIN goal[p]])
  /\ UNCHANGED <<closed, lock, pools, npools, handles, key, goal, state,
                 statusLock, remote, accepted, task, stray, leaked, mcRet>>
  /\ UNCHANGED <<objs, held>>
  /\ See

\* ---------------------------------------------------------------- Pool.Update
\* What the goroutine of Update can hold when GetDeployment has returned:
\* a decoded state, an error (with a nil state), or nothing after a panic.
FetchOutcomes(docs) ==
  {[st |-> "ready", err |-> FALSE, pl |-> d] : d \in docs}
  \cup {[st |-> "ready", err |-> TRUE, pl |-> NilMap], [Task0 EXCEPT !.st = "dead"]}

\* Update storing the payload without looking at the error.
UpdateStateUnchecked(old, x) == x.pl

\* if x.err != nil { return x.err }; p.state = x.pl.(*DeploymentState)
UpdateState(old, x) == IF x.err THEN old ELSE x.pl

\* if p.mgr.closed { return ErrManagerClosed }
UpdateCheck(t) ==
  /\ pc[t] = "idle"
  /\ \E p \in handles :
       IF MgrClosed(closed)
       THEN Return(t, Result("Update", p, None, "ErrManagerClosed"))
       ELSE /\ pc' = [pc EXCEPT ![t] = "up_lock"]
            /\ loc' = [loc EXCEPT ![t].p = p]
            /\ last' = Last0
  /\ UNCHANGED <<closed, lock, pools, npools, handles, key, goal, state,
                 statusLock, remote, accepted, task, stray, leaked, mcRet>>
  /\ UNCHANGED <<objs, held>>
  /\ See

\* p.statusLock.Lock(); ch := make(chan *tuple); go func() { GetDeployment ... }()
UpdateLock(t) ==
  /\ pc[t] = "up_lock"
  /\ CanLock(loc[t].p)
  /\ statusLock' = [statusLock EXCEPT ![loc[t].p] = t]
  /\ task' = [task EXCEPT ![t] = [Task0 EXCEPT !.st = "running"]]
  /\ pc' = [pc EXCEPT ![t] = "up_wait"]
  /\ UNCHANGED <<closed, lock, pools, npools, handles, key, goal, state,
                 remote, accepted, loc, stray, leaked, mcRet>>
  /\ last' = Last0
  /\ UNCHANGED <<objs, held>>
  /\ See

\* The goroutine: state, err := GetDeployment(...) returns or panics; after a
\* panic recover() ends the goroutine, otherwise it blocks on ch <- ...
FetchReturn(t, sc) ==
  /\ pc[t] = "up_wait"
  /\ task[t].st = "running"
  /\ \E x \in FetchOutcomes(sc.docs) : task' = [task EXCEPT ![t] = x]
  /\ UNCHANGED <<closed, lock, pools, npools, handles, key, goal, state,
                 statusLock, remote, accepted, pc, loc, stray, leaked, mcRet>>
  /\ last' = Last0
  /\ UNCHANGED <<objs, held>>
  /\ See

\* case x := <-ch: the first send of the goroutine is received.  After the
\* send of an error the goroutine goes on to a second send on ch, which
\* nobody receives and nobody closes.
UpdateRecv(t) ==
  /\ pc[t] = "up_wait"
  /\ task[t].st = "ready"
  /\ LET p == loc[t].p IN
     /\ state' = [state EXCEPT ![p] = UpdateState(@, task[t])]
     /\ statusLock' = [statusLock EXCEPT ![p] = None]
     /\ IF task[t].err
        THEN /\ StrayCount < MaxStray
             /\ leaked' = leaked + 1
             /\ Return(t, Result("Update", p, None, "remote_error"))
        ELSE /\ leaked' = leaked
             /\ Return(t, Result("Update", p, None, "ok"))
  /\ task' = [task EXCEPT ![t] = Task0]
  /\ UNCHANGED <<closed, lock, pools, npools, handles, key, goal, remote,
                 accepted, stray, mcRet>>
  /\ UNCHANGED <<objs, held>>
  /\ See

\* case <-timeout: close(ch); return errors.New("cleanup timed out").  A
\* goroutine blocked on its send panics and ends; one whose remote call has
\* not returned stays, with the call in flight.
UpdateTimeout(t) ==
  /\ pc[t] = "up_wait"
  /\ LET p == loc[t].p IN
     /\ statusLock' = [statusLock EXCEPT ![p] = None]
     /\ IF task[t].st = "running"
        THEN /\ StrayCount < MaxStray
             /\ stray' = [stray EXCEPT ![p].fetch = @ + 1]
        ELSE stray' = stray
     /\ Return(t, Result("Update", p, None, "timeout"))
  /\ task' = [task EXCEPT ![t] = Task0]
  /\ UNCHANGED <<closed, lock, pools, npools, handles, key, goal, state,
                 remote, accepted, leaked, mcRet>>
  /\ UNCHANGED <<objs, held>>
  /\ See

\* An abandoned fetch returns: the send on the closed channel panics and
\* recover() ends the goroutine.
StrayFetchReturn(p) ==
  /\ stray[p].fetch > 0
  /\ stray' = [stray EXCEPT ![p].fetch = @ - 1]
  /\ UNCHANGED <<closed, lock, pools, npools, handles, key, goal, state,
                 statusLock, remote, accepted, pc, loc, task, leaked, mcRet>>
  /\ last' = Last0
  /\ UNCHANGED <<objs, held>>
  /\ See

\* ----------------------------------------------------------------- Pool.Close
\* What the goroutine of Close can hold when DeleteDeployment has returned.
DeleteOutcomes == {"ok", "err", "fault"}

\* Pool.Close clearing the states whatever the delete returned.
TornDownAlways(old, err) == NilMap

\* if err != nil { return err }; p.goal = nil; p.state = nil: what Close
\* leaves in p.goal and in p.state, which held old.
TornDown(old, err) == IF err THEN old ELSE NilMap

\* Pool.Close leaving the Pool in the registry.
RegistryKeep(m, k) == m

\* delete(p.mgr.pools, p.key())
RegistryDelete(m, k) == [x \in (DOMAIN m) \ {k} |-> m[x]]

\* p.statusLock.Lock(); ch := make(chan error); go func() { DeleteDeployment ... }()
PoolCloseStart(t, p) ==
  /\ CanLock(p)
  /\ statusLock' = [statusLock EXCEPT ![p] = t]
  /\ task' = [task EXCEPT ![t] = [Task0 EXCEPT !.st = "running"]]
  /\ pc' = [pc EXCEPT ![t] = "pc_wait"]
  /\ loc' = [loc EXCEPT ![t].p = p]

\* A caller invokes Close on a Pool it holds.
PoolCloseCall(t) ==
  /\ pc[t] = "idle"
  /\ \E p \in handles : PoolCloseStart(t, p)
  /\ UNCHANGED <<closed, lock, pools, npools, handles, key, goal, state,
                 remote, accepted, stray, leaked, mcRet>>
  /\ last' = Last0
  /\ UNCHANGED <<objs, held>>
  /\ See

\* The goroutine: DeleteDeployment(...) returns or panics.
DeleteReturn(t) ==
  /\ pc[t] = "pc_wait"
  /\ task[t].st = "running"
  /\ \E out \in DeleteOutcomes :
       /\ task' = [task EXCEPT ![t] =
                     IF out = "fault" THEN [Task0 EXCEPT !.st = "dead"]
                     ELSE [Task0 EXCEPT !.st = "ready", !.err = (out = "err")]]
       /\ remote' = IF out = "ok" THEN remote \ {key[loc[t].p]} ELSE remote
  /\ UNCHANGED <<closed, lock, pools, npools, handles, key, goal, state,
                 statusLock, accepted, pc, loc, stray, leaked, mcRet>>
  /\ last' = Last0
  /\ UNCHANGED <<objs, held>>
  /\ See

\* The results of the Manager.Close calls so far, with the result res added.
McRet(res) == IF mcRet = "ok" \/ res = "ok" THEN "ok" ELSE "err"

\* Manager.Close going on to the next Pool whatever pool.Close returned.
MgrCloseReturnsNever(res) == FALSE

\* err := pool.Close(); if err != nil { return err }
MgrCloseReturns(res) == res # "ok"

\* Pool.Close returns the failure res; called from Manager.Close, that call
\* returns it too and unlocks m.lock.
PoolCloseFail(t, res) ==
  IF loc[t].mgr
  THEN IF MgrCloseReturns(res)
       THEN /\ lock' = None
            /\ mcRet' = McRet(res)
            /\ Return(t, Result("ManagerClose", loc[t].p, None, res))
       ELSE /\ pc' = [pc EXCEPT ![t] = "mc_loop"]
            /\ loc' = [loc EXCEPT ![t].p = 0, ![t].list = @ \ {loc[t].p}]
            /\ UNCHANGED <<lock, mcRet>> /\ last' = Last0
  ELSE /\ UNCHANGED <<lock, mcRet>>
       /\ Return(t, Result("PoolClose", loc[t].p, None, res))

\* case err := <-ch: if err != nil { return err }; p.goal = nil; p.state = nil;
\* delete(p.mgr.pools, p.key()); return nil
PoolCloseRecv(t) ==
  /\ pc[t] = "pc_wait"
  /\ task[t].st = "ready"
  /\ LET p == loc[t].p IN
     /\ statusLock' = [statusLock EXCEPT ![p] = None]
     /\ goal' = [goal EXCEPT ![p] = TornDown(@, task[t].err)]
     /\ state' = [state EXCEPT ![p] = TornDown(@, task[t].err)]
     /\ IF task[t].err
        THEN /\ PoolCloseFail(t, "remote_error")
             /\ UNCHANGED pools
        ELSE /\ pools' = RegistryDelete(pools, key[p])
             /\ IF loc[t].mgr
                THEN /\ pc' = [pc EXCEPT ![t] = "mc_loop"]
                     /\ loc' = [loc EXCEPT ![t].p = 0, ![t].list = @ \ {p}]
                     /\ UNCHANGED <<lock, mcRet>> /\ last' = Last0
                ELSE /\ Return(t, Result("PoolClose", p, None, "ok"))
                     /\ UNCHANGED <<lock, mcRet>>
  /\ task' = [task EXCEPT ![t] = Task0]
  /\ UNCHANGED <<closed, npools, handles, key, remote, accepted, stray, leaked>>
  /\ UNCHANGED <<objs, held>>
  /\ See

\* case <-timeout: close(ch); return errors.New("cleanup timed out")
PoolCloseTimeout(t) ==
  /\ pc[t] = "pc_wait"
  /\ LET p == loc[t].p IN
     /\ statusLock' = [statusLock EXCEPT ![p] = None]
     /\ IF task[t].st = "running"
        THEN /\ StrayCount < MaxStray
             /\ stray' = [stray EXCEPT ![p].delete = @ + 1]
        ELSE stray' = stray
     /\ PoolCloseFail(t, "timeout")
  /\ task' = [task EXCEPT ![t] = Task0]
  /\ UNCHANGED <<closed, pools, npools, handles, key, goal, state, remote,
                 accepted, leaked>>
  /\ UNCHANGED <<objs, held>>
  /\ See

\* An abandoned delete returns: the deployment is deleted or not; the send on
\* the closed channel panics and recover() ends the goroutine.
StrayDeleteReturn(p) ==
  /\ stray[p].delete > 0
  /\ stray' = [stray EXCEPT ![p].delete = @ - 1]
  /\ \E ok \in BOOLEAN : remote' = IF ok THEN remote \ {key[p]} ELSE remote
  /\ UNCHANGED <<closed, lock, pools, npools, handles, key, goal, state,
                 statusLock, accepted, pc, loc, task, leaked, mcRet>>
  /\ last' = Last0
  /\ UNCHANGED <<objs, held>>
  /\ See

\* -------------------------------------------------------------- Manager.Close
\* list := the Pools of m.pools
PoolList(m) == {m[k] : k \in DOMAIN m}

\* m.lock.Lock(); m.closed = true; list := ...
ManagerCloseBegin(t) ==
  /\ pc[t] = "idle"
  /\ lock = None
  /\ lock' = t
  /\ closed' = TRUE
  /\ pc' = [pc EXCEPT ![t] = "mc_loop"]
  /\ loc' = [loc EXCEPT ![t].mgr = TRUE, ![t].list = PoolList(pools)]
  /\ UNCHANGED <<pools, npools, handles, key, goal, state, statusLock, remote,
                 accepted, task, stray, leaked, mcRet>>
  /\ last' = Last0
  /\ UNCHANGED <<objs, held>>
  /\ See

\* for _, pool := range list { err := pool.Close() ... }; return nil.  The
\* order of list is the order of a map iteration: any.
ManagerCloseNext(t) ==
  /\ pc[t] = "mc_loop"
  /\ IF loc[t].list = {}
     THEN /\ lock' = None
          /\ mcRet' = McRet("ok")
          /\ Return(t, Result("ManagerClose", 0, None, "ok"))
          /\ UNCHANGED <<statusLock, task>>
     ELSE /\ \E p \in loc[t].list : PoolCloseStart(t, p)
          /\ UNCHANGED <<lock, mcRet>> /\ last' = Last0
  /\ UNCHANGED <<closed, pools, npools, handles, key, goal, state, remote,
                 accepted, stray, leaked>>
  /\ UNCHANGED <<objs, held>>
  /\ See

\* ------------------------------------------------------------- specifications
\* A step of client thread t, or of the goroutine it waits for, drawing
\* from scope sc.
Step(t, sc) ==
  \/ NewPoolCheck(t, sc)
  \/ NewPoolRegister(t)
  \/ NewPoolCreated(t)
  \/ SpawnCheck(t, sc)
  \/ SpawnLock(t, sc)
  \/ SpawnPushed(t)
  \/ DestroyCheck(t, sc)
  \/ DestroyLock(t)
  \/ DestroyPushed(t)
  \/ StatusReadState(t, sc)
  \/ StatusReadGoal(t)
  \/ InstancesRead(t)
  \/ UpdateCheck(t)
  \/ UpdateLock(t)
  \/ FetchReturn(t, sc)
  \/ UpdateRecv(t)
  \/ UpdateTimeout(t)
  \/ PoolCloseCall(t)
  \/ DeleteReturn(t)
  \/ PoolCloseRecv(t)
  \/ PoolCloseTimeout(t)
  \/ ManagerCloseBegin(t)
  \/ ManagerCloseNext(t)

\* A step of an abandoned goroutine.
StrayStep ==
  \E p \in PoolIds :
    \/ StrayFetchReturn(p)
    \/ StrayDeleteReturn(p)

Next == (\E t \in Procs : Step(t, PoolScope)) \/ StrayStep

\* Concurrent callers of the Manager and of one Pool.
Spec == Init /\ [][Next]_vars

NextSeq == (\E t \in SeqProcs : Step(t, SeqScope)) \/ StrayStep

\* One caller of the Manager and of one Pool: every call returns before the
\* next one starts.
SpecSeq == Init /\ [][NextSeq]_vars

NextMgr == (\E t \in SeqProcs : Step(t, MgrScope)) \/ StrayStep

\* One caller of the Manager and of two Pools.
SpecMgr == Init /\ [][NextMgr]_vars

\* One Pool, with one identifier and one document:
LiveScope ==
  [pools |-> {1}, keys |-> {"o::a"}, ids |-> {"a"}, vms |-> {"vm1"},
   docs |-> {EmptyMap}]

NextLive == (\E t \in Procs : Step(t, LiveScope)) \/ StrayStep

\* What the Go scheduler and runtime see to: a goroutine that can run does
\* run, a timer that was started fires, a goroutine waiting for a mutex gets
\* it if it is released again and again.  Nothing makes a caller call, and
\* nothing makes the remote API answer.
Fairness ==
  \A t \in Procs :
    /\ WF_vars(StatusReadGoal(t))
    /\ WF_vars(UpdateRecv(t))
    /\ WF_vars(UpdateTimeout(t))
    /\ WF_vars(PoolCloseRecv(t))
    /\ WF_vars(PoolCloseTimeout(t))
    /\ SF_vars(NewPoolRegister(t))
    /\ SF_vars(SpawnLock(t, LiveScope))
    /\ SF_vars(DestroyLock(t))
    /\ SF_vars(UpdateLock(t))
    /\ SF_vars(ManagerCloseNext(t))

\* Concurrent callers of the Manager and of one Pool, under a fair scheduler.
SpecLive == Init /\ [][NextLive]_vars /\ Fairness

\* --------------------------------------------- DeploymentGoal as an object
\* The Manager's variables, which a user of DeploymentGoal alone leaves alone.
managerVars ==
  <<closed, lock, pools, npools, handles, key, goal, state, statusLock,
    remote, accepted, pc, loc, task, stray, leaked, mcRet, seen>>

\* The children a DeploymentGoal can have here.
GoalInputs == UNION {[D -> VMs] : D \in SUBSET Ids}

\* A caller holds g, a DeploymentGoal with any children, at address 1.
InitGoal ==
  /\ InitManager
  /\ \E c \in GoalInputs : objs = [r \in Refs |-> IF r = 1 THEN c ELSE EmptyMap]
  /\ held = [g |-> 1, n |-> 0]

\* Copy returning its receiver.
NewGoalShared(src, free) == src

\* n := new(DeploymentGoal): the address of the object Copy returns, with
\* src the address of the receiver and free an address not in use.
NewGoal(src, free) == free

\* n := g.Copy()
GoalCopy ==
  /\ LET r == NewGoal(held.g, CHOOSE x \in Refs : x # held.g) IN
       /\ objs' = [objs EXCEPT ![r] = Copy(objs[held.g])]
       /\ held' = [held EXCEPT !.n = r]
  /\ last' = [Result("Copy", 0, None, "ok") EXCEPT !.ref = "n"]
  /\ UNCHANGED managerVars

\* g.Attach(id, vm) or n.Attach(id, vm): ptr names the pointer used.
GoalAttach(ptr) ==
  /\ held[ptr] # 0
  /\ \E id \in Ids, vm \in VMs :
       /\ objs' = [objs EXCEPT ![held[ptr]] = Attach(@, id, vm)]
       /\ last' = [Result("Attach", 0, id, "ok") EXCEPT !.ref = ptr]
  /\ UNCHANGED <<managerVars, held>>

\* g.Detach(id) or n.Detach(id)
GoalDetach(ptr) ==
  /\ held[ptr] # 0
  /\ \E id \in Ids :
       /\ objs' = [objs EXCEPT ![held[ptr]] = Detach(@, id)]
       /\ last' = [Result("Detach", 0, id, "ok") EXCEPT !.ref = ptr]
  /\ UNCHANGED <<managerVars, held>>

NextGoal ==
  \/ GoalCopy
  \/ \E ptr \in {"g", "n"} : GoalAttach(ptr)
  \/ \E ptr \in {"g", "n"} : GoalDetach(ptr)

\* A caller of Copy, Attach and Detach on a DeploymentGoal and on its copy.
SpecGoal == InitGoal /\ [][NextGoal]_vars

\* ------------------------------------------------------------------- claims
\* Pools that NewPool constructed.
Constructed == {p \in PoolIds : p <= npools}

\* Pools whose Goal State and Observed State are both there (not torn down).
Open(p) == goal[p] # NilMap /\ state[p] # NilMap

\* C1: once Manager.Close has returned, every deployment created through
\* NewPool has been deleted from the remote API, and no Pool the Manager
\* created is left registered or not torn down, whatever the remote delete
\* calls returned.
C1_CloseCleansEverything ==
  mcRet # None =>
    /\ remote = {}
    /\ DOMAIN pools = {}
    /\ \A p \in Constructed : goal[p] = NilMap /\ state[p] = NilMap

\* C2: once the closed flag is set, no Pool is constructed or added to the
\* registry and no remote create call is issued; a NewPool that returns then
\* returns a Closed error.
C2_NoPoolOnceClosed ==
  [][closed =>
       /\ npools' = npools
       /\ \A k \in DOMAIN pools' : k \in DOMAIN pools /\ pools'[k] = pools[k]
       /\ handles' = handles
       /\ \A t \in Procs : pc'[t] # "np_create"
       /\ last'.op = "NewPool" => last'.res \in {"ErrManagerClosed", "closed"}
    ]_vars

\* C2 witness: a NewPool that passed the first check of m.closed lost the race
\* with Manager.Close and failed on the check under the lock.
C2_Witness == closed /\ last.op = "NewPool" /\ last.res = "closed"

\* Thread t takes a step of a Manager.Close call.
ManagerCloseStep(t) ==
  \/ pc[t] = "idle" /\ pc'[t] = "mc_loop"
  \/ pc[t] = "mc_loop" /\ pc'[t] # "mc_loop"
  \/ pc[t] = "pc_wait" /\ loc[t].mgr /\ pc'[t] # "pc_wait"

\* The step of Manager.Close by t is part of a no-op: it changes no Manager
\* or Pool state, starts no remote call, and if it returns, returns success.
NoOpStep(t) ==
  /\ UNCHANGED <<closed, pools, npools, handles, key, goal, state, remote,
                 accepted, stray, leaked>>
  /\ task'[t].st = None
  /\ pc'[t] = "idle" => last'.op = "ManagerClose" /\ last'.res = "ok"

C4_SpawnPushThenSwap ==
  [][\A t \in Procs : pc[t] = "sp_push" =>
       LET p == loc[t].p
           id == loc[t].id
           Extended(g) ==
             /\ DOMAIN g = (DOMAIN goal[p]) \cup {id}
             /\ g[id] = loc[t].vm
             /\ \A k \in (DOMAIN goal[p]) \ {id} : g[k] = goal[p][k]
       IN /\ Extended(loc[t].g)
          /\ IF pc'[t] = "sp_push" THEN goal'[p] = goal[p]
             ELSE /\ last'.op = "Spawn"
                  /\ IF last'.push = "ok"
                     THEN /\ Extended(goal'[p])
                          /\ last'.res = "ok"
                          /\ last'.val = id
                     ELSE /\ goal'[p] = goal[p]
                          /\ last'.res = "remote_error"
    ]_vars

\* C4 witness: a Spawn whose push failed has returned, on a Pool whose goal has
\* an instance.
C4_Witness ==
  /\ last.op = "Spawn"
  /\ last.push = "failed"
  /\ goal[last.p] \notin {EmptyMap, NilMap}

\* No call on Pool p is in progress.
Quiet(p) == \A t \in Procs : pc[t] # "idle" => loc[t].p # p

\* C5: whenever no operation of a Pool is in progress, its Goal State is the
\* goal document the remote API accepted last (empty if none was).
C5_GoalIsRemoteGoal ==
  \A p \in handles : Quiet(p) /\ goal[p] # NilMap => goal[p] = accepted[p]

\* C6: Destroy(id) removes id from the Goal State and leaves every other
\* entry as it was, and from then until it returns, whatever the push returns,
\* the Goal State does not change and does not contain id.
C6_DestroyRemovesId ==
  [][\A t \in Procs :
       LET p == loc[t].p
           id == loc[t].id
       IN /\ pc[t] = "de_lock" /\ pc'[t] = "de_push" =>
               /\ DOMAIN goal'[p] = (DOMAIN goal[p]) \ {id}
               /\ \A k \in DOMAIN goal'[p] : goal'[p][k] = goal[p][k]
          /\ pc[t] = "de_push" =>
               /\ goal'[p] = goal[p]
               /\ id \notin DOMAIN goal'[p]
               /\ pc'[t] = "idle" => last'.op = "Destroy" /\ last'.res = "ok"
    ]_vars

\* C6 witness: a Destroy whose push failed has returned; its identifier, which
\* the remote API still has, is gone from the goal and another one is left.
C6_Witness ==
  /\ last.op = "Destroy"
  /\ last.push = "failed"
  /\ goal[last.p] \notin {EmptyMap, NilMap}
  /\ last.id \in DOMAIN accepted[last.p]
  /\ last.id \notin DOMAIN goal[last.p]

\* C7: when the push of Destroy fails, Destroy returns the failure.
C7_DestroyReturnsPushError ==
  last.op = "Destroy" /\ last.push = "failed" => last.res # "ok"

\* C8: on an open Pool, Status(id) returns ErrInstanceNotInPool iff id is in
\* neither state, returns a new empty status iff id is in the Goal State
\* only, returns the status stored in the Observed State iff id is there, and
\* changes neither state.
C8_StatusCases ==
  [][last'.op = "Status" /\ Open(last'.p) =>
       LET p == last'.p
           id == last'.id
           inGoal == id \in DOMAIN goal[p]
           inState == id \in DOMAIN state[p]
       IN /\ last'.res = "ErrInstanceNotInPool" <=> ~inGoal /\ ~inState
          /\ (last'.res = "ok" /\ last'.ref = "fresh" /\ last'.val = EmptyStatus)
               <=> (inGoal /\ ~inState)
          /\ (inState /\ last'.res = "ok" /\ last'.ref = "stored"
                /\ last'.val = state[p][id])
               <=> inState
          /\ goal' = goal
          /\ state' = state
    ]_vars

\* C8 witness: Status returned the status stored for an identifier that is in
\* the Observed State only, and that status is the zero status.
C8_Witness ==
  /\ last.op = "Status"
  /\ last.ref = "stored"
  /\ last.val = EmptyStatus
  /\ Open(last.p)
  /\ last.id \notin DOMAIN goal[last.p]

\* Thread t receives the fetched state in Update on Pool p and stores it.
UpdateStores(t, p) ==
  /\ pc[t] = "up_wait" /\ loc[t].p = p
  /\ task[t].st = "ready" /\ ~task[t].err
  /\ state'[p] = task[t].pl
  /\ last'.op = "Update" /\ last'.res = "ok"

\* Thread t receives the success of the remote delete in Close on Pool p
\* and clears both states.
CloseClears(t, p) ==
  /\ pc[t] = "pc_wait" /\ loc[t].p = p
  /\ task[t].st = "ready" /\ ~task[t].err
  /\ state'[p] = NilMap /\ goal'[p] = NilMap

\* Update returns a failure and leaves the Observed State as it was, when it
\* returns without having received a fetched state; no step of Update
\* changes the Goal State.
UpdateFrame ==
  \A t \in Procs :
    /\ pc[t] \in {"up_lock", "up_wait"} /\ pc'[t] # pc[t] => goal' = goal
    /\ last'.op = "Update" => goal' = goal
    /\ last'.op = "Update" /\ last'.res # "ok" =>
         /\ state' = state
         /\ last'.res \in {"timeout", "remote_error", "ErrManagerClosed"}
    /\ pc[t] = "up_wait" /\ pc'[t] = "idle" /\ ~(task[t].st = "ready" /\ ~task[t].err) =>
         last'.res \in {"timeout", "remote_error"}

\* C9 as stated: the Observed State changes only through a successful Update,
\* which replaces it with the fetched state; a failed Update leaves it as it
\* was; Update never changes the Goal State.
C9_OnlyUpdateChangesState ==
  [][/\ \A p \in PoolIds :
          state'[p] # state[p] => \E t \in Procs : UpdateStores(t, p)
     /\ UpdateFrame
    ]_vars

\* C9 as amended: the Observed State changes only through a successful
\* Update, which replaces it with the fetched state, or through a successful
\* Pool.Close, which clears it; a failed Update leaves it as it was; Update
\* never changes the Goal State.
C9_UpdateOrCloseChangesState ==
  [][/\ \A p \in PoolIds :
          state'[p] # state[p] =>
            \E t \in Procs : UpdateStores(t, p) \/ CloseClears(t, p)
     /\ UpdateFrame
    ]_vars

\* C9 witness: an Update timed out and returned on a Pool whose Observed State,
\* stored by an earlier Update, has an instance.
C9_Witness ==
  /\ last.op = "Update"
  /\ last.res = "timeout"
  /\ state[last.p] \notin {EmptyMap, NilMap}

\* The calls on Pool p that have not returned and have a remote call in flight.
Active(p) ==
  {t \in Procs :
     /\ loc[t].p = p
     /\ \/ pc[t] \in {"sp_push", "de_push"}
        \/ pc[t] \in {"up_wait", "pc_wait"} /\ task[t].st = "running"}

\* The remote calls of Pool p in flight, those of returned calls included.
InFlight(p) == Cardinality(Active(p)) + stray[p].fetch + stray[p].delete

\* C10 as stated: at most one remote call of a Pool is in flight at any time,
\* also after an Update or Close has timed out and returned.
C10_OneRemoteCallPerPool == \A p \in PoolIds : InFlight(p) <= 1

\* C10 as amended: at most one remote call issued by a call on the Pool that
\* has not returned is in flight at any time; the remote call of an Update or
\* Close that timed out is not cancelled and may be in flight beside it.
C10_OneRemoteCallPerLockHolder ==
  \A p \in PoolIds :
    /\ Cardinality(Active(p)) <= 1
    /\ \A t \in Active(p) : statusLock[p] = t

\* C10 witness: a Spawn pushes while the fetch of a timed-out Update of the
\* same Pool is still in flight.
C10_Witness ==
  \E p \in PoolIds, t \in Procs :
    stray[p].fetch = 1 /\ pc[t] = "sp_push" /\ loc[t].p = p

\* The result a Status call returned, as StatusAt gives it.
StatusView(r) == <<r.res, r.ref, r.val>>

\* C11: a Status or Instances read that runs while Spawn, Destroy, Update or
\* Close run on the same Pool returns what it would have returned on the Goal
\* State and Observed State of one single instant between its call and its
\* return.
C11_ReadsSeeOneInstant ==
  [][/\ \A t \in Procs :
          pc[t] = "st_goal" /\ pc'[t] = "idle" => StatusView(last') \in seen[t]
     /\ last'.op = "Status" /\ (\A t \in Procs : pc[t] # "st_goal") =>
          StatusView(last') = StatusAt(goal[last'.p], state[last'.p], last'.id)
     /\ last'.op = "Instances" =>
          IF goal[last'.p] = NilMap THEN last'.res = "panic"
          ELSE last'.res = "ok" /\ last'.list = DOMAIN goal[last'.p]
    ]_vars

\* C12: once the closed flag is set, a Spawn, Destroy or Update that is called
\* goes no further than its check of the flag: it returns ErrManagerClosed,
\* starts no remote call, takes no lock and changes neither the Goal State nor
\* the Observed State.
C12_ClosedManagerRejects ==
  [][closed =>
       /\ \A t \in Procs :
            pc[t] = "idle" => pc'[t] \notin {"sp_lock", "de_lock", "up_lock"}
       /\ pc' = pc /\ last'.op \in {"Spawn", "Destroy", "Update"} =>
            /\ last'.res = "ErrManagerClosed"
            /\ UNCHANGED <<goal, state, accepted, remote, statusLock, task,
                           stray, leaked>>
    ]_vars

\* C12 witness: an Update called while Manager.Close, which has set the flag,
\* is still closing the Pool returned ErrManagerClosed; the Pool is open.
C12_Witness ==
  /\ closed
  /\ last.op = "Update"
  /\ last.res = "ErrManagerClosed"
  /\ Open(last.p)
  /\ \E t \in Procs : pc[t] = "pc_wait" /\ loc[t].mgr /\ loc[t].p = last.p

\* The errors that say a Manager or Pool is closed.
ClosedErrors == {"ErrManagerClosed", "closed"}

\* C13: a Spawn, Destroy, Update, Status or Instances that returns on a Pool
\* that a successful Pool.Close had torn down before returns a Closed error
\* and leaves the Pool torn down.
C13_TornDownPoolRejects ==
  [][\A p \in PoolIds :
       /\ goal[p] = NilMap /\ state[p] = NilMap
       /\ last'.op \in {"Spawn", "Destroy", "Update", "Status", "Instances"}
       /\ last'.p = p
       => /\ last'.res \in ClosedErrors
          /\ goal'[p] = NilMap /\ state'[p] = NilMap
    ]_vars

\* C14: right after n := g.Copy() the copy has exactly the entries of g, and
\* from then on an Attach or Detach on the copy leaves the entries of g as
\* they were, and one on g leaves the entries of the copy as they were.
C14_CopyIsIndependent ==
  [][/\ last'.op = "Copy" =>
          /\ objs'[held'.n] = objs[held.g]
          /\ objs'[held'.g] = objs[held.g]
     /\ last'.op \in {"Attach", "Detach"} /\ held.n # 0 =>
          LET other == IF last'.ref = "n" THEN held.g ELSE held.n
          IN objs'[other] = objs[other]
    ]_vars

\* C14 witness: a Detach on the copy has removed an entry that g still has.
C14_Witness ==
  /\ held.n # 0
  /\ last.op = "Detach"
  /\ last.ref = "n"
  /\ last.id \in DOMAIN objs[held.g]
  /\ last.id \notin DOMAIN objs[held.n]

\* C15: the identifier a successful Spawn returns was not a key of the Goal
\* State before the call: the Goal State gains exactly one instance and every
\* instance it had keeps its specification.
C15_SpawnNeverReusesId ==
  [][\A t \in Procs :
       pc[t] = "sp_push" /\ pc'[t] = "idle" /\ last'.res = "ok" =>
         LET p == loc[t].p IN
         /\ last'.val \notin DOMAIN goal[p]
         /\ Cardinality(DOMAIN goal'[p]) = Cardinality(DOMAIN goal[p]) + 1
         /\ \A k \in DOMAIN goal[p] : goal'[p][k] = goal[p][k]
    ]_vars

\* Thread t is inside a call of Update, or of Pool.Close (from the step that
\* takes the Pool's lock; within Manager.Close, from the moment the next Pool
\* is to be closed).
InUpdateOrClose(t) ==
  \/ pc[t] \in {"up_lock", "up_wait", "pc_wait"}
  \/ pc[t] = "mc_loop" /\ loc[t].list # {}

\* C16: every call of Update and of Pool.Close returns in the end, whether or
\* not any remote call of the Pool ever completes, also while another
\* operation of the Pool waits for a remote call that never completes.  (Runs
\* that use up the bound on abandoned goroutines are not judged.)
C16_UpdateAndCloseReturn ==
  \A t \in Procs :
    InUpdateOrClose(t) ~> (~InUpdateOrClose(t) \/ StrayCount >= MaxStray)

C18_CloseTearsDownOnSuccessOnly ==
  [][/\ \A t \in Procs :
          pc[t] = "pc_wait" /\ pc'[t] # pc[t] =>
            LET p == loc[t].p
                deleted == task[t].st = "ready" /\ ~task[t].err
                succeeds == IF loc[t].mgr THEN pc'[t] = "mc_loop"
                            ELSE last'.res = "ok"
            IN IF succeeds
               THEN /\ deleted
                    /\ goal'[p] = NilMap /\ state'[p] = NilMap
                    /\ DOMAIN pools' = (DOMAIN pools) \ {key[p]}
                    /\ \A k \in DOMAIN pools' : pools'[k] = pools[k]
               ELSE /\ goal' = goal /\ state' = state /\ pools' = pools
                    /\ pc'[t] = "idle"
                    /\ last'.op \in {"PoolClose", "ManagerClose"}
                    /\ last'.res \in {"remote_error", "timeout"}
                    /\ last'.res = "remote_error" =>
                         task[t].st = "ready" /\ task[t].err
                    /\ ~deleted /\ ~(task[t].st = "ready" /\ task[t].err) =>
                         last'.res = "timeout"
     /\ \A p \in PoolIds :
          (goal'[p] = NilMap /\ goal[p] # NilMap)
            \/ (state'[p] = NilMap /\ state[p] # NilMap)
          => \E t \in Procs : CloseClears(t, p)
    ]_vars

\* C18 witness: a Close whose delete did not answer in time has returned; the
\* Pool is registered and has an instance in its Goal State and in its
\* Observed State.
C18_Witness ==
  /\ last.op = "PoolClose"
  /\ last.res = "timeout"
  /\ key[last.p] \in DOMAIN pools
  /\ pools[key[last.p]] = last.p
  /\ goal[last.p] \notin {EmptyMap, NilMap}
  /\ state[last.p] \notin {EmptyMap, NilMap}

\* Pools that NewPool returned and that no Close has torn down.
Live == {p \in handles : goal[p] # NilMap}

\* C19: every Pool that NewPool returned and that was not closed successfully
\* is the entry of the registry under its key.
C19_LivePoolsAreRegistered ==
  \A p \in Live : key[p] \in DOMAIN pools /\ pools[key[p]] = p

\* C20: when the remote create call fails, NewPool returns the error and the
\* Pool it constructed is not in the registry, and Manager.Close never closes
\* a Pool that NewPool did not return.
C20_FailedNewPoolNotRegistered ==
  [][\A t \in Procs :
       /\ pc[t] = "np_create" /\ pc'[t] = "idle" /\ loc[t].p \notin handles' =>
            /\ last'.op = "NewPool" /\ last'.res = "remote_error"
            /\ \A k \in DOMAIN pools' : pools'[k] # loc[t].p
       /\ pc'[t] = "pc_wait" /\ loc'[t].mgr => loc'[t].p \in handles
    ]_vars

\* C21: no goroutine of Update or Pool.Close whose remote call has returned
\* is left blocked on a send of its result that nobody will receive and
\* nobody will end by closing the channel, whatever the remote call returned
\* and whether the caller received the result or timed out.
C21_NoTaskBlockedForEver == leaked = 0

====
